---- MODULE Spec2Model ----
(***************************************************************************)
(* The message composer of the side panel (ChatInput.tsx): the text        *)
(* buffer, the attached files, the props the parent renders it with, and   *)
(* the event handlers that turn both into one outbound message; and the    *)
(* profile form of the options page (ProfileSettings.tsx): the form data,  *)
(* the custom fields and the handlers that keep the two in step.           *)
(*                                                                         *)
(* A JavaScript string is modelled as the sequence of its characters, each *)
(* a one-character TLA+ string, so that trim, toLowerCase, split, template *)
(* literals and join act on characters as they do in the code.             *)
(***************************************************************************)
EXTENDS Integers, Sequences, FiniteSets, TLC

VARIABLES
    text,                \* useState('') of ChatInput.tsx:43
    attachedFiles,       \* useState<AttachedFile[]>([]) of ChatInput.tsx:44
    disabled,            \* prop
    showStopButton,      \* prop
    historicalSessionId, \* prop: string | null
    onReplay,            \* prop: whether the optional callback was passed
    reads,               \* the handleFileChange activations waiting on file.text()
    ev,                  \* the last event delivered and the callbacks it invoked
    profileData,         \* useStorage(profileStore) of ProfileSettings.tsx:19
    formData,            \* useState<ProfileData>({}) of ProfileSettings.tsx:20
    customFields,        \* useState<CustomField[]>([]) of ProfileSettings.tsx:21
    newFieldLabel,       \* useState('') of ProfileSettings.tsx:22
    saved,               \* useState(false) of ProfileSettings.tsx:23
    awaiting,            \* the handleSave and handleClear activations waiting on the store
    pev                  \* the last event delivered to the profile form

\* the state of the composer, and of the profile form
composer == <<text, attachedFiles, disabled, showStopButton, historicalSessionId, onReplay, reads, ev>>
profile == <<profileData, formData, customFields, newFieldLabel, saved, awaiting, pev>>

vars == <<text, attachedFiles, disabled, showStopButton, historicalSessionId, onReplay, reads, ev,
          profileData, formData, customFields, newFieldLabel, saved, awaiting, pev>>

(***************************************************************************)
(* Bounds of the model.                                                    *)
(***************************************************************************)
MaxAttached == 2
MaxSelection == 2

\* selections in flight at once under SpecAttach
MaxReads == 2

\* handleSave and handleClear calls and timers pending at once under SpecProfile
MaxAwaiting == 1

(***************************************************************************)
(* String literals of the source.                                          *)
(***************************************************************************)
\* <nano_file_content type="file" name="
FileContentOpen ==
    <<"<", "n", "a", "n", "o", "_", "f", "i", "l", "e", "_", "c", "o", "n", "t", "e", "n", "t",
      " ", "t", "y", "p", "e", "=", "\"", "f", "i", "l", "e", "\"", " ", "n", "a", "m", "e",
      "=", "\"">>

\* ">\n
FileContentMid ==
    <<"\"", ">", "\n">>

\* \n</nano_file_content>
FileContentClose ==
    <<"\n", "<", "/", "n", "a", "n", "o", "_", "f", "i", "l", "e", "_", "c", "o", "n", "t",
      "e", "n", "t", ">">>

\* <nano_attached_files>
AttachedFilesOpen ==
    <<"<", "n", "a", "n", "o", "_", "a", "t", "t", "a", "c", "h", "e", "d", "_", "f", "i", "l",
      "e", "s", ">">>

\* </nano_attached_files>
AttachedFilesClose ==
    <<"<", "/", "n", "a", "n", "o", "_", "a", "t", "t", "a", "c", "h", "e", "d", "_", "f", "i",
      "l", "e", "s", ">">>

\* The paperclip glyph of the template literal, one element, followed by a space.
Glyph ==
    <<"U+1F4CE", " ">>

NL ==
    <<"\n">>

NULL ==
    "null"

(***************************************************************************)
(* String.prototype.trim, toLowerCase, split('.').pop() and Array.join.    *)
(***************************************************************************)
WhiteSpace ==
    {" ", "\n", "\t", "\r"}

RECURSIVE TrimStart(_)
TrimStart(s) ==
    IF s # <<>> /\ Head(s) \in WhiteSpace THEN TrimStart(Tail(s)) ELSE s

RECURSIVE TrimEnd(_)
TrimEnd(s) ==
    IF s # <<>> /\ s[Len(s)] \in WhiteSpace THEN TrimEnd(SubSeq(s, 1, Len(s) - 1)) ELSE s

\* Trim as it would be with the trailing white space left in place.
TrimStartOnly(s) ==
    TrimStart(s)

Trim(s) ==
    TrimEnd(TrimStart(s))

UpperCase ==
    <<"A", "B", "C", "D", "E", "F", "G", "H", "I", "J", "K", "L", "M",
      "N", "O", "P", "Q", "R", "S", "T", "U", "V", "W", "X", "Y", "Z">>

LowerCase ==
    <<"a", "b", "c", "d", "e", "f", "g", "h", "i", "j", "k", "l", "m",
      "n", "o", "p", "q", "r", "s", "t", "u", "v", "w", "x", "y", "z">>

ToLowerChar(c) ==
    IF \E k \in 1..26 : UpperCase[k] = c
    THEN LowerCase[CHOOSE k \in 1..26 : UpperCase[k] = c]
    ELSE c

ToLowerCase(s) ==
    [k \in 1..Len(s) |-> ToLowerChar(s[k])]

\* name.split('.').pop(): the part after the last '.', the whole name when it has none
SplitPop(name) ==
    LET dots == {k \in 1..Len(name) : name[k] = "."}
        last == IF dots = {} THEN 0 ELSE CHOOSE k \in dots : \A j \in dots : j <= k
    IN  SubSeq(name, last + 1, Len(name))

RECURSIVE Join(_, _)
Join(parts, sep) ==
    IF parts = <<>> THEN <<>>
    ELSE IF Len(parts) = 1 THEN parts[1]
    ELSE parts[1] \o sep \o Join(Tail(parts), sep)

(***************************************************************************)
(* The inputs the events are drawn from.                                   *)
(***************************************************************************)
\* What the textarea may hold: "", " ", "Hello", " a b\n"
Texts ==
    {<<>>, <<" ">>, <<"H", "e", "l", "l", "o">>, <<" ", "a", " ", "b", "\n">>}

MaxFileSize ==
    1048576

\* The local files a selection is drawn from (File: name, size in bytes, MIME
\* type, and data, the text file.text() resolves to).  The text of the two
\* files at the size limit is one element that stands for all its characters.
FilePool ==
    {[name |-> <<"a", ".", "t", "x", "t">>, size |-> 2, type |-> "text/plain", data |-> <<"h", "i">>],
     [name |-> <<"B", ".", "M", "D">>, size |-> MaxFileSize, type |-> "", data |-> <<"(1048576 characters)">>],
     [name |-> <<"l", "o", "g">>, size |-> 2, type |-> "", data |-> <<"o", "k">>],
     [name |-> <<"x", ".", "e", "x", "e">>, size |-> 2, type |-> "application/x-msdownload", data |-> <<"M", "Z">>],
     [name |-> <<"b", "i", "g", ".", "m", "d">>, size |-> MaxFileSize + 1, type |-> "text/markdown", data |-> <<"(1048577 characters)">>]}

Keys ==
    {"Enter", "a"}

\* A session identifier is opaque to the composer: a TLA+ string
SessionIds ==
    {NULL, "", "s1"}

\* JavaScript truthiness of a string | null
Truthy(s) ==
    s # NULL /\ s # ""

\* A FileList: up to MaxSelection files, none of them twice
Selections ==
    {fs \in UNION {[1..n -> FilePool] : n \in 0..MaxSelection} :
        \A j, k \in 1..Len(fs) : j # k => fs[j] # fs[k]}

(***************************************************************************)
(* handleSubmit (ChatInput.tsx:81-116).                                    *)
(***************************************************************************)
OnSendMessage(messageContent, displayContent) ==
    [fn |-> "onSendMessage", args |-> <<messageContent, displayContent>>]

\* the template literal of line 96
FileBlock(file) ==
    <<"\n", "\n">> \o FileContentOpen \o file.name \o FileContentMid \o file.content \o FileContentClose

\* FileContents as it would be with the blocks concatenated and not joined.
FileContentsConcatenated(files) ==
    Join([k \in 1..Len(files) |-> FileBlock(files[k])], <<>>)

\* attachedFiles.map(...).join('\n') of lines 93-98
FileContents(files) ==
    Join([k \in 1..Len(files) |-> FileBlock(files[k])], NL)

\* messageContent of lines 87 and 101-103
MessageContent(trimmedText, files) ==
    IF Len(files) > 0
    THEN IF trimmedText # <<>>
         THEN trimmedText \o <<"\n", "\n">> \o AttachedFilesOpen \o FileContents(files) \o AttachedFilesClose
         ELSE AttachedFilesOpen \o FileContents(files) \o AttachedFilesClose
    ELSE trimmedText

\* fileList of line 106
FileList(files) ==
    Join([k \in 1..Len(files) |-> Glyph \o files[k].name], NL)

\* DisplayContent as it would be if the display were given the message content.
DisplayContentWithData(trimmedText, files) ==
    MessageContent(trimmedText, files)

\* displayContent of lines 88 and 107
DisplayContent(trimmedText, files) ==
    IF Len(files) > 0
    THEN IF trimmedText # <<>>
         THEN trimmedText \o <<"\n", "\n">> \o FileList(files)
         ELSE FileList(files)
    ELSE trimmedText

\* SubmitGuard as it would be without the test of line 86.
SubmitGuardMissing(trimmedText, files) ==
    TRUE

\* the guard of line 86
SubmitGuard(trimmedText, files) ==
    trimmedText # <<>> \/ Len(files) > 0

\* SubmitReset as it would be without setAttachedFiles([]).
SubmitResetTextOnly(t, files) ==
    [text |-> <<>>, attachedFiles |-> files]

\* the state setters of lines 111-112
SubmitReset(t, files) ==
    [text |-> <<>>, attachedFiles |-> <<>>]

\* handleSubmit: the text buffer and attachments it leaves, and the callbacks it invoked
handleSubmit(t, files) ==
    LET trimmedText == Trim(t)
    IN  IF SubmitGuard(trimmedText, files)
        THEN [text |-> SubmitReset(t, files).text,
              attachedFiles |-> SubmitReset(t, files).attachedFiles,
              calls |-> <<OnSendMessage(MessageContent(trimmedText, files),
                                        DisplayContent(trimmedText, files))>>]
        ELSE [text |-> t, attachedFiles |-> files, calls |-> <<>>]

\* isSendButtonDisabled (ChatInput.tsx:45-48)
isSendButtonDisabled ==
    disabled \/ (Trim(text) = <<>> /\ Len(attachedFiles) = 0)

\* TextareaDisabled as it would be without the disabled attribute.
TextareaNeverDisabled ==
    FALSE

\* the textarea's disabled attribute (ChatInput.tsx:232): a disabled textarea
\* receives no input and no key events
TextareaDisabled ==
    disabled

\* PrimaryButton as it would be without the replay branch.
PrimaryButtonWithoutReplay ==
    IF showStopButton THEN "stop" ELSE "send"

\* which button the footer renders (ChatInput.tsx:313-346)
PrimaryButton ==
    IF showStopButton THEN "stop"
    ELSE IF Truthy(historicalSessionId) THEN "replay"
    ELSE "send"

\* KeySubmits as it would be without the test of e.shiftKey.
KeySubmitsIgnoringShift(key, shiftKey, isComposing) ==
    key = "Enter" /\ ~isComposing

\* the condition of handleKeyDown (ChatInput.tsx:120)
KeySubmits(key, shiftKey, isComposing) ==
    key = "Enter" /\ ~shiftKey /\ ~isComposing

(***************************************************************************)
(* handleFileChange (ChatInput.tsx:138-181) and handleRemoveFile (183-185).*)
(***************************************************************************)
\* allowedTypes of line 143
allowedTypes ==
    {<<".", "t", "x", "t">>,
     <<".", "m", "d">>,
     <<".", "m", "a", "r", "k", "d", "o", "w", "n">>,
     <<".", "j", "s", "o", "n">>,
     <<".", "c", "s", "v">>,
     <<".", "l", "o", "g">>,
     <<".", "x", "m", "l">>,
     <<".", "y", "a", "m", "l">>,
     <<".", "y", "m", "l">>}

\* fileExt of line 147
FileExt(name) ==
    <<".">> \o ToLowerCase(SplitPop(name))

\* the two checks of lines 150 and 156: the file is skipped
Skipped(file) ==
    FileExt(file.name) \notin allowedTypes \/ file.size > MaxFileSize

\* the loop of line 145 from index i (1-based): the next file that reaches
\* file.text(), Len(files) + 1 when every remaining file is skipped
NextRead(files, i) ==
    LET ok == {k \in i..Len(files) : ~Skipped(files[k])}
    IN  IF ok = {} THEN Len(files) + 1 ELSE CHOOSE k \in ok : \A j \in ok : k <= j

\* the AttachedFile pushed at lines 163-167
AttachedFile(file) ==
    [name |-> file.name, content |-> file.data, type |-> IF file.type = "" THEN "text/plain" ELSE file.type]

\* AppendNewFiles as it would be with the attachedFiles the callback closed over
\* (the empty list of the first render, its dependency list being empty) in
\* place of the updater's prev.
AppendNewFilesStale(prev, newFiles) ==
    IF Len(newFiles) > 0 THEN newFiles ELSE prev

\* setAttachedFiles(prev => [...prev, ...newFiles]) under the test of line 173
AppendNewFiles(prev, newFiles) ==
    IF Len(newFiles) > 0 THEN prev \o newFiles ELSE prev

\* RemoveAt as it would be with the index taken as 1-based.
RemoveAtOneBased(prev, index) ==
    LET keep == {k \in 1..Len(prev) : k # index}
        pos(n) == CHOOSE k \in keep : Cardinality({j \in keep : j <= k}) = n
    IN  [n \in 1..Cardinality(keep) |-> prev[pos(n)]]

\* prev.filter((_, i) => i !== index) of line 184, index 0-based
RemoveAt(prev, index) ==
    LET keep == {k \in 1..Len(prev) : k - 1 # index}
        pos(n) == CHOOSE k \in keep : Cardinality({j \in keep : j <= k}) = n
    IN  [n \in 1..Cardinality(keep) |-> prev[pos(n)]]

(***************************************************************************)
(* The profile form (ProfileSettings.tsx). An object (ProfileData) is the  *)
(* sequence of its own properties in insertion order, each a key, which is *)
(* a string, and a value, which the form only copies: a TLA+ string.       *)
(***************************************************************************)
\* predefinedFields (ProfileSettings.tsx:26-35)
predefinedFields ==
    <<[key |-> <<"n", "a", "m", "e">>, label |-> "Full Name"],
      [key |-> <<"e", "m", "a", "i", "l">>, label |-> "Email"],
      [key |-> <<"p", "h", "o", "n", "e">>, label |-> "Phone Number"],
      [key |-> <<"d", "a", "t", "e", "O", "f", "B", "i", "r", "t", "h">>, label |-> "Date of Birth"],
      [key |-> <<"a", "d", "d", "r", "e", "s", "s">>, label |-> "Address"],
      [key |-> <<"c", "o", "l", "l", "e", "g", "e">>, label |-> "College/University"],
      [key |-> <<"j", "o", "b">>, label |-> "Job Title"],
      [key |-> <<"a", "g", "e">>, label |-> "Age"]>>

\* Object.keys(obj)
ObjectKeys(obj) ==
    [k \in 1..Len(obj) |-> obj[k].key]

\* { ...prev, [key]: value }: an own property keeps its place, a new one goes last
Assign(prev, key, value) ==
    IF \E k \in 1..Len(prev) : prev[k].key = key
    THEN [k \in 1..Len(prev) |-> IF prev[k].key = key THEN [key |-> key, value |-> value] ELSE prev[k]]
    ELSE Append(prev, [key |-> key, value |-> value])

\* const newData = { ...prev }; delete newData[key] (ProfileSettings.tsx:92-94)
Delete(prev, key) ==
    SelectSeq(prev, LAMBDA p : p.key # key)

\* predefinedFields.find(field => field.key === key), as a truth value
IsPredefined(key) ==
    \E k \in 1..Len(predefinedFields) : predefinedFields[k].key = key

\* customKeys of line 41
CustomKeys(data) ==
    SelectSeq(ObjectKeys(data), LAMBDA key : ~IsPredefined(key))

\* customKeys.map(key => ({ key, label: key })) of line 42
CustomFieldsOf(data) ==
    [k \in 1..Len(CustomKeys(data)) |-> [key |-> CustomKeys(data)[k], label |-> CustomKeys(data)[k]]]

\* [a-z0-9]
AlphaNumeric ==
    {LowerCase[k] : k \in 1..26} \cup {"0", "1", "2", "3", "4", "5", "6", "7", "8", "9"}

\* .replace(/[^a-z0-9]+/g, '_'): every run of other characters becomes one '_'
RECURSIVE ReplaceRuns(_)
ReplaceRuns(s) ==
    IF s = <<>> THEN <<>>
    ELSE IF Head(s) \in AlphaNumeric THEN <<Head(s)>> \o ReplaceRuns(Tail(s))
    ELSE IF Len(s) > 1 /\ s[2] \notin AlphaNumeric THEN ReplaceRuns(Tail(s))
    ELSE <<"_">> \o ReplaceRuns(Tail(s))

\* .replace(/^_+|_+$/g, ''): the leading and the trailing underscores go
RECURSIVE StripUnderscores(_)
StripUnderscores(s) ==
    IF s # <<>> /\ Head(s) = "_" THEN StripUnderscores(Tail(s))
    ELSE IF s # <<>> /\ s[Len(s)] = "_" THEN StripUnderscores(SubSeq(s, 1, Len(s) - 1))
    ELSE s

\* labelToKey (ProfileSettings.tsx:66-71)
labelToKey(label) ==
    StripUnderscores(ReplaceRuns(ToLowerCase(label)))

\* FieldExists as it would be with the predefined fields alone looked up.
FieldExistsAmongPredefined(fieldKey, fields) ==
    IsPredefined(fieldKey)

\* the test of line 78: a predefined or a custom field has the key
FieldExists(fieldKey, fields) ==
    IsPredefined(fieldKey) \/ \E k \in 1..Len(fields) : fields[k].key = fieldKey

\* What the store may hold: nothing, a predefined field, a custom field
\* next to a predefined one, and a field saved under the empty key.
StoreData ==
    {<<>>,
     <<[key |-> <<>>, value |-> ""]>>,
     <<[key |-> <<"n", "a", "m", "e">>, value |-> "x"]>>,
     <<[key |-> <<"p", "e", "t">>, value |-> "x"], [key |-> <<"n", "a", "m", "e">>, value |-> "x"]>>}

\* What the user types as the label of a new field
NewLabels ==
    {<<" ">>, <<"P", "e", "t">>, <<" ", "p", "e", "t", "!">>, <<"N", "a", "m", "e">>, <<"?", "!">>}

\* The inputs the user edits, besides those of the custom fields, and the values typed
EditedFields ==
    {<<"n", "a", "m", "e">>}

Values ==
    {"x"}

\* The last event of the profile form: the handler that ran, the key or
\* label it was given, and whether alert() was called.
ProfileEvent(op, key) ==
    [op |-> op, key |-> key, alerted |-> FALSE]

\* The form once mounted over the store data: the effect of lines 37-43 has run.
ProfileMounted(data) ==
    /\ profileData = data
    /\ formData = data
    /\ customFields = CustomFieldsOf(data)
    /\ newFieldLabel = <<>>
    /\ saved = FALSE
    /\ awaiting = <<>>
    /\ pev = ProfileEvent("mount", <<>>)

(***************************************************************************)
(* The state machine: one action per event the component handles.          *)
(***************************************************************************)
\* The last event: which handler ran (op), the event's own data (for a settled
\* read, whether it resolved), whether e.preventDefault() was called, and the
\* calls that left the component (props callbacks, console), in order.
Event(op, calls) ==
    [op |-> op, key |-> "", shiftKey |-> FALSE, isComposing |-> FALSE, index |-> 0,
     files |-> <<>>, ok |-> TRUE, defaultPrevented |-> FALSE, calls |-> calls]

Init ==
    /\ text = <<>>
    /\ attachedFiles = <<>>
    /\ disabled \in BOOLEAN
    /\ showStopButton \in BOOLEAN
    /\ historicalSessionId \in SessionIds
    /\ onReplay \in BOOLEAN
    /\ reads = <<>>
    /\ ev = Event("mount", <<>>)
    /\ ProfileMounted(<<>>)

props == <<disabled, showStopButton, historicalSessionId, onReplay>>

\* The parent renders the component again with one prop changed (a render
\* that changes several is several of these: a render has no other effect).
Render(d, s, h, r) ==
    /\ Cardinality({k \in 1..4 : <<d, s, h, r>>[k] # props[k]}) = 1
    /\ disabled' = d
    /\ showStopButton' = s
    /\ historicalSessionId' = h
    /\ onReplay' = r
    /\ ev' = Event("render", <<>>)
    /\ UNCHANGED <<text, attachedFiles, reads>>
    /\ UNCHANGED profile

\* handleTextChange (ChatInput.tsx:53-63): the user edits the textarea.
handleTextChange(newText) ==
    /\ ~TextareaDisabled
    /\ newText # text
    /\ text' = newText
    /\ ev' = Event("change", <<>>)
    /\ UNCHANGED <<attachedFiles, props, reads>>
    /\ UNCHANGED profile

\* The setter handed out through setContent (ChatInput.tsx:66-70).
setContent(newText) ==
    /\ newText # text
    /\ text' = newText
    /\ ev' = Event("setContent", <<>>)
    /\ UNCHANGED <<attachedFiles, props, reads>>
    /\ UNCHANGED profile

\* handleKeyDown (ChatInput.tsx:118-126): a key goes down in the textarea.
handleKeyDown(key, shiftKey, isComposing) ==
    /\ ~TextareaDisabled
    /\ LET submits == KeySubmits(key, shiftKey, isComposing)
           after == IF submits THEN handleSubmit(text, attachedFiles)
                    ELSE [text |-> text, attachedFiles |-> attachedFiles, calls |-> <<>>]
       IN  /\ text' = after.text
           /\ attachedFiles' = after.attachedFiles
           /\ ev' = [Event("keydown", after.calls) EXCEPT
                        !.key = key, !.shiftKey = shiftKey, !.isComposing = isComposing,
                        !.defaultPrevented = submits]
    /\ UNCHANGED <<props, reads>>
    /\ UNCHANGED profile

\* clickSend as it would be if a submit abandoned the selections being read.
clickSendDroppingReads ==
    /\ PrimaryButton = "send"
    /\ ~isSendButtonDisabled
    /\ LET after == handleSubmit(text, attachedFiles)
       IN  /\ text' = after.text
           /\ attachedFiles' = after.attachedFiles
           /\ ev' = [Event("submit", after.calls) EXCEPT !.defaultPrevented = TRUE]
    /\ reads' = <<>>
    /\ UNCHANGED props
    /\ UNCHANGED profile

\* The send button (ChatInput.tsx:334-345) submits the form: onSubmit={handleSubmit}.
clickSend ==
    /\ PrimaryButton = "send"
    /\ ~isSendButtonDisabled
    /\ LET after == handleSubmit(text, attachedFiles)
       IN  /\ text' = after.text
           /\ attachedFiles' = after.attachedFiles
           /\ ev' = [Event("submit", after.calls) EXCEPT !.defaultPrevented = TRUE]
    /\ UNCHANGED <<props, reads>>
    /\ UNCHANGED profile

\* handleReplay (ChatInput.tsx:128-132) behind the replay button (321-332).
handleReplay ==
    /\ PrimaryButton = "replay"
    /\ ev' = Event("replay",
                   IF Truthy(historicalSessionId) /\ onReplay
                   THEN <<[fn |-> "onReplay", args |-> <<historicalSessionId>>]>>
                   ELSE <<>>)
    /\ UNCHANGED <<text, attachedFiles, props, reads>>
    /\ UNCHANGED profile

\* The stop button (ChatInput.tsx:314-319): onClick={onStopTask}.
clickStop ==
    /\ PrimaryButton = "stop"
    /\ ev' = Event("stop", <<[fn |-> "onStopTask", args |-> <<>>]>>)
    /\ UNCHANGED <<text, attachedFiles, props, reads>>
    /\ UNCHANGED profile

\* handleRemoveFile (ChatInput.tsx:183-185).
handleRemoveFile(index) ==
    /\ attachedFiles' = RemoveAt(attachedFiles, index)
    /\ ev' = [Event("remove", <<>>) EXCEPT !.index = index]
    /\ UNCHANGED <<text, props, reads>>
    /\ UNCHANGED profile

\* console.warn for the files from..to that fail a check (ChatInput.tsx:150-153
\* and 156-159): the loop passes them on its way to the next file.text().
Warnings(files, from, to) ==
    [k \in 1..(IF to >= from THEN to - from + 1 ELSE 0) |->
        [fn |-> "console.warn", args |-> <<files[from + k - 1].name>>]]

\* PushRead as it would be with newFiles.unshift in place of newFiles.push.
PushReadUnshift(newFiles, file, ok) ==
    IF ok THEN <<AttachedFile(file)>> \o newFiles ELSE newFiles

\* PushRead as it would be if a rejected read discarded the files read so far.
PushReadDroppingOnError(newFiles, file, ok) ==
    IF ok THEN Append(newFiles, AttachedFile(file)) ELSE <<>>

\* The try/catch around one read (ChatInput.tsx:161-170): a resolved read
\* pushes the file, a rejected one is caught and leaves newFiles alone.
PushRead(newFiles, file, ok) ==
    IF ok THEN Append(newFiles, AttachedFile(file)) ELSE newFiles

\* console.error in the catch block (ChatInput.tsx:168-170).
CatchLog(file, ok) ==
    IF ok THEN <<>> ELSE <<[fn |-> "console.error", args |-> <<file.name>>]>>

\* handleFileChange up to its first await (ChatInput.tsx:138-162): the checks
\* run until a file reaches file.text(); with none, the handler ends at once.
\* An activation keeps the handler's locals (files, i, newFiles) and, for the
\* properties only, the indexes whose read was rejected.
handleFileChange(files) ==
    /\ reads' = IF Len(files) = 0 \/ NextRead(files, 1) > Len(files)
                THEN reads
                ELSE Append(reads, [files |-> files, i |-> NextRead(files, 1),
                                    newFiles |-> <<>>, rejected |-> {}])
    /\ ev' = [Event("fileChange",
                    IF Len(files) = 0 THEN <<>>
                    ELSE Warnings(files, 1, NextRead(files, 1) - 1))
                EXCEPT !.files = files]
    /\ UNCHANGED <<text, attachedFiles, props>>
    /\ UNCHANGED profile

\* readSettled as it would be if each file were appended as soon as it is read.
readSettledAppendingEach(r, ok) ==
    /\ r \in 1..Len(reads)
    /\ LET a == reads[r]
           next == NextRead(a.files, a.i + 1)
       IN  /\ reads' = IF next <= Len(a.files)
                       THEN [reads EXCEPT ![r] =
                               [a EXCEPT !.i = next, !.newFiles = PushRead(a.newFiles, a.files[a.i], ok),
                                         !.rejected = IF ok THEN @ ELSE @ \cup {a.i}]]
                       ELSE [k \in 1..(Len(reads) - 1) |->
                               IF k < r THEN reads[k] ELSE reads[k + 1]]
           /\ attachedFiles' = AppendNewFiles(attachedFiles, PushRead(<<>>, a.files[a.i], ok))
           /\ ev' = [Event("readSettled",
                           CatchLog(a.files[a.i], ok)
                             \o Warnings(a.files, a.i + 1, next - 1))
                       EXCEPT !.index = r, !.ok = ok]
    /\ UNCHANGED <<text, props>>
    /\ UNCHANGED profile

\* handleFileChange after an await (ChatInput.tsx:162-175): the read of
\* activation r settles, resolved (ok) or rejected; the loop goes on to the
\* next file that reaches file.text(), or ends with the one setAttachedFiles.
readSettled(r, ok) ==
    /\ r \in 1..Len(reads)
    /\ LET a == reads[r]
           newFiles == PushRead(a.newFiles, a.files[a.i], ok)
           next == NextRead(a.files, a.i + 1)
       IN  /\ IF next <= Len(a.files)
              THEN /\ reads' = [reads EXCEPT ![r] =
                                  [a EXCEPT !.i = next, !.newFiles = newFiles,
                                            !.rejected = IF ok THEN @ ELSE @ \cup {a.i}]]
                   /\ UNCHANGED attachedFiles
              ELSE /\ reads' = [k \in 1..(Len(reads) - 1) |->
                                  IF k < r THEN reads[k] ELSE reads[k + 1]]
                   /\ attachedFiles' = AppendNewFiles(attachedFiles, newFiles)
           /\ ev' = [Event("readSettled",
                           CatchLog(a.files[a.i], ok)
                             \o Warnings(a.files, a.i + 1, next - 1))
                       EXCEPT !.index = r, !.ok = ok]
    /\ UNCHANGED <<text, props>>
    /\ UNCHANGED profile

\* The runs explored: the user picks files again once the previous selection
\* has settled, and never more than MaxAttached files in all.
SelectionFits(files) ==
    reads = <<>> /\ Len(attachedFiles) + Len(files) <= MaxAttached

Next ==
    \/ \E d \in BOOLEAN, s \in BOOLEAN, h \in SessionIds, r \in BOOLEAN : Render(d, s, h, r)
    \/ \E t \in Texts : handleTextChange(t)
    \/ \E t \in Texts : setContent(t)
    \/ \E k \in Keys, s \in BOOLEAN, c \in BOOLEAN : handleKeyDown(k, s, c)
    \/ clickSend
    \/ handleReplay
    \/ clickStop
    \/ \E i \in -1..Len(attachedFiles) : handleRemoveFile(i)
    \/ \E fs \in Selections : SelectionFits(fs) /\ handleFileChange(fs)
    \/ \E r \in 1..Len(reads), ok \in BOOLEAN : readSettled(r, ok)

Spec ==
    Init /\ [][Next]_vars

(***************************************************************************)
(* The composer while selections overlap: a second specification over the  *)
(* same handlers, with the props fixed at an enabled composer that shows   *)
(* the send button, and up to MaxReads activations of handleFileChange in  *)
(* flight at once.                                                         *)
(***************************************************************************)
InitAttach ==
    /\ text = <<>>
    /\ attachedFiles = <<>>
    /\ disabled = FALSE
    /\ showStopButton = FALSE
    /\ historicalSessionId = NULL
    /\ onReplay = FALSE
    /\ reads = <<>>
    /\ ev = Event("mount", <<>>)
    /\ ProfileMounted(<<>>)

\* The FileLists picked while selections overlap: two files that are read
\* and one that is skipped, in any number and order.
OverlapSelections ==
    {fs \in Selections :
        \A k \in 1..Len(fs) : fs[k].name \in {<<"a", ".", "t", "x", "t">>, <<"B", ".", "M", "D">>,
                                                <<"x", ".", "e", "x", "e">>}}

\* the files an activation may still append: those pushed and those not yet reached
InFlight(a) ==
    Len(a.newFiles) + Cardinality({k \in a.i..Len(a.files) : ~Skipped(a.files[k])})

RECURSIVE InFlightAll(_)
InFlightAll(rs) ==
    IF rs = <<>> THEN 0 ELSE InFlight(Head(rs)) + InFlightAll(Tail(rs))

\* The runs explored: at most MaxReads selections in flight, and never more
\* than MaxAttached files attached or on their way.
OverlapFits(files) ==
    /\ Len(reads) < MaxReads
    /\ Len(attachedFiles) + InFlightAll(reads) + Len(files) <= MaxAttached

NextAttach ==
    \/ \E t \in Texts : handleTextChange(t)
    \/ clickSend
    \/ \E i \in -1..Len(attachedFiles) : handleRemoveFile(i)
    \/ \E fs \in OverlapSelections : OverlapFits(fs) /\ handleFileChange(fs)
    \/ \E r \in 1..Len(reads), ok \in BOOLEAN : readSettled(r, ok)

SpecAttach ==
    InitAttach /\ [][NextAttach]_vars


(***************************************************************************)
(* The profile form: one action per event it handles, and a specification  *)
(* of its own, with the composer left as it was mounted.                   *)
(***************************************************************************)
\* useStorage hands the component new store data and the effect of lines
\* 37-43 runs: the form data and the custom fields are taken from the store.
storeSync(data) ==
    /\ profileData' = data
    /\ formData' = data
    /\ customFields' = CustomFieldsOf(data)
    /\ pev' = ProfileEvent("storeSync", <<>>)
    /\ UNCHANGED <<newFieldLabel, saved, awaiting>>
    /\ UNCHANGED composer

\* handleFieldChange (ProfileSettings.tsx:45-47), from the input of a
\* predefined field (line 125) or of a custom field (line 171).
handleFieldChange(field, value) ==
    /\ formData' = Assign(formData, field, value)
    /\ pev' = ProfileEvent("fieldChange", field)
    /\ UNCHANGED <<profileData, customFields, newFieldLabel, saved, awaiting>>
    /\ UNCHANGED composer

\* onChange of the new-field input (ProfileSettings.tsx:147): setNewFieldLabel.
handleLabelChange(label) ==
    /\ label # newFieldLabel
    /\ newFieldLabel' = label
    /\ pev' = ProfileEvent("labelChange", label)
    /\ UNCHANGED <<profileData, formData, customFields, saved, awaiting>>
    /\ UNCHANGED composer

\* addCustomField (ProfileSettings.tsx:73-87), from the Add button or Enter.
addCustomField ==
    /\ LET fieldKey == labelToKey(newFieldLabel)
       IN  IF Trim(newFieldLabel) = <<>>
           THEN /\ pev' = ProfileEvent("addCustomField", fieldKey)
                /\ UNCHANGED <<formData, customFields, newFieldLabel>>
           ELSE IF FieldExists(fieldKey, customFields)
           THEN /\ pev' = [ProfileEvent("addCustomField", fieldKey) EXCEPT !.alerted = TRUE]
                /\ UNCHANGED <<formData, customFields, newFieldLabel>>
           ELSE /\ customFields' = Append(customFields, [key |-> fieldKey, label |-> Trim(newFieldLabel)])
                /\ formData' = Assign(formData, fieldKey, "")
                /\ newFieldLabel' = <<>>
                /\ pev' = ProfileEvent("addCustomField", fieldKey)
    /\ UNCHANGED <<profileData, saved, awaiting>>
    /\ UNCHANGED composer

\* removeCustomField (ProfileSettings.tsx:89-96), from the button of a custom field.
removeCustomField(key) ==
    /\ customFields' = SelectSeq(customFields, LAMBDA field : field.key # key)
    /\ formData' = Delete(formData, key)
    /\ pev' = ProfileEvent("removeCustomField", key)
    /\ UNCHANGED <<profileData, newFieldLabel, saved, awaiting>>
    /\ UNCHANGED composer

\* handleSave and handleClear up to their await (ProfileSettings.tsx:50, 60):
\* the store is asked to write, and tells the form through storeSync.
handleSave ==
    /\ awaiting' = Append(awaiting, "save")
    /\ pev' = ProfileEvent("save", <<>>)
    /\ UNCHANGED <<profileData, formData, customFields, newFieldLabel, saved>>
    /\ UNCHANGED composer

handleClear ==
    /\ awaiting' = Append(awaiting, "clear")
    /\ pev' = ProfileEvent("clear", <<>>)
    /\ UNCHANGED <<profileData, formData, customFields, newFieldLabel, saved>>
    /\ UNCHANGED composer

\* The k-th pending continuation runs: handleSave after its await (lines
\* 52-56), handleClear after its await (lines 61-62), or the timer of line 54.
resume(k) ==
    /\ k \in 1..Len(awaiting)
    /\ LET rest == [j \in 1..(Len(awaiting) - 1) |-> IF j < k THEN awaiting[j] ELSE awaiting[j + 1]]
       IN  CASE awaiting[k] = "save" ->
                  /\ saved' = TRUE
                  /\ awaiting' = Append(rest, "timer")
                  /\ UNCHANGED <<formData, customFields>>
             [] awaiting[k] = "clear" ->
                  /\ formData' = <<>>
                  /\ customFields' = <<>>
                  /\ awaiting' = rest
                  /\ UNCHANGED saved
             [] awaiting[k] = "timer" ->
                  /\ saved' = FALSE
                  /\ awaiting' = rest
                  /\ UNCHANGED <<formData, customFields>>
    /\ pev' = ProfileEvent("resume", <<>>)
    /\ UNCHANGED <<profileData, newFieldLabel>>
    /\ UNCHANGED composer

InitProfile ==
    /\ text = <<>>
    /\ attachedFiles = <<>>
    /\ disabled = FALSE
    /\ showStopButton = FALSE
    /\ historicalSessionId = NULL
    /\ onReplay = FALSE
    /\ reads = <<>>
    /\ ev = Event("mount", <<>>)
    /\ \E data \in StoreData : ProfileMounted(data)

NextProfile ==
    \/ \E data \in StoreData : storeSync(data)
    \/ \E field \in EditedFields \cup {customFields[k].key : k \in 1..Len(customFields)}, value \in Values :
          handleFieldChange(field, value)
    \/ \E label \in NewLabels : handleLabelChange(label)
    \/ addCustomField
    \/ \E k \in 1..Len(customFields) : removeCustomField(customFields[k].key)
    \/ Len(awaiting) < MaxAwaiting /\ handleSave
    \/ Len(awaiting) < MaxAwaiting /\ handleClear
    \/ \E k \in 1..Len(awaiting) : resume(k)

SpecProfile ==
    InitProfile /\ [][NextProfile]_vars

(***************************************************************************)
(* Vocabulary of the properties.                                           *)
(***************************************************************************)
\* the onSendMessage invocations of an event
SendCalls(e) ==
    SelectSeq(e.calls, LAMBDA c : c.fn = "onSendMessage")

\* handleSubmit ran in the event e
SubmitAttempt(e) ==
    e.op = "submit" \/ (e.op = "keydown" /\ e.defaultPrevented)

\* p occurs in s at position i
OccursAt(p, s, i) ==
    /\ i >= 1
    /\ i + Len(p) - 1 <= Len(s)
    /\ \A k \in 1..Len(p) : s[i + k - 1] = p[k]

Occurrences(p, s) ==
    {i \in 1..(Len(s) + 1) : OccursAt(p, s, i)}

Contains(s, p) ==
    Occurrences(p, s) # {}

\* the first position at or after from where p occurs in s, 0 when there is none
FirstFrom(p, s, from) ==
    LET at == {i \in Occurrences(p, s) : i >= from}
    IN  IF at = {} THEN 0 ELSE CHOOSE i \in at : \A j \in at : i <= j

\* the parts occur in s one after the other, in this order, without overlap, from position from on
RECURSIVE OccurInOrder(_, _, _)
OccurInOrder(parts, s, from) ==
    \/ parts = <<>>
    \/ LET at == FirstFrom(Head(parts), s, from)
       IN  at # 0 /\ OccurInOrder(Tail(parts), s, at + Len(Head(parts)))

RECURSIVE SumLen(_)
SumLen(parts) ==
    IF parts = <<>> THEN 0 ELSE Len(Head(parts)) + SumLen(Tail(parts))

AllWhiteSpace(s) ==
    \A k \in 1..Len(s) : s[k] \in {" ", "\n", "\t", "\r"}

\* t is s without its leading and trailing white space
IsTrimOf(t, s) ==
    \E a \in 0..Len(s) : \E b \in a..Len(s) :
        /\ t = SubSeq(s, a + 1, b)
        /\ AllWhiteSpace(SubSeq(s, 1, a))
        /\ AllWhiteSpace(SubSeq(s, b + 1, Len(s)))
        /\ t # <<>> => ~AllWhiteSpace(<<t[1]>>) /\ ~AllWhiteSpace(<<t[Len(t)]>>)

\* trim(s), characterised rather than computed
TrimOf(s) ==
    CHOOSE t \in {SubSeq(s, a + 1, b) : a \in 0..Len(s), b \in 0..Len(s)} : IsTrimOf(t, s)

\* the text in front of the attachments: trim(T) and two newlines, nothing for an empty trim(T)
TextPrefix(s) ==
    IF TrimOf(s) = <<>> THEN <<>> ELSE TrimOf(s) \o <<"\n", "\n">>

\* the tagged block of one attachment, as the source writes it
TaggedBlock(f) ==
    <<"\n", "\n">> \o FileContentOpen \o f.name \o FileContentMid \o f.content \o FileContentClose

\* the display line of one attachment
GlyphLine(f) ==
    Glyph \o f.name

SpecFileContentOpen ==
    <<"<", "f", "i", "l", "e", "-", "c", "o", "n", "t", "e", "n", "t", " ", "n", "a", "m", "e",
      "=", "\"">>

\* \n</file-content>
SpecFileContentClose ==
    <<"\n", "<", "/", "f", "i", "l", "e", "-", "c", "o", "n", "t", "e", "n", "t", ">">>

\* <attached-files>
SpecAttachedFilesOpen ==
    <<"<", "a", "t", "t", "a", "c", "h", "e", "d", "-", "f", "i", "l", "e", "s", ">">>

\* </attached-files>
SpecAttachedFilesClose ==
    <<"<", "/", "a", "t", "t", "a", "c", "h", "e", "d", "-", "f", "i", "l", "e", "s", ">">>

RECURSIVE SpecBlocks(_)
SpecBlocks(A) ==
    IF A = <<>> THEN <<>>
    ELSE <<"\n", "\n">> \o SpecFileContentOpen \o Head(A).name \o <<"\"", ">", "\n">>
         \o Head(A).content \o SpecFileContentClose \o SpecBlocks(Tail(A))

C2_AsStated ==
    [][(SendCalls(ev') # <<>> /\ attachedFiles # <<>>) =>
        SendCalls(ev')[1].args[1] =
            TextPrefix(text) \o SpecAttachedFilesOpen \o SpecBlocks(attachedFiles)
                \o SpecAttachedFilesClose]_vars

(***************************************************************************)
(* C2, amended. With attachments the payload is exactly trim(T), two       *)
(* newlines (nothing for an empty trim(T)) and                             *)
(* <nano_attached_files>...</nano_attached_files> around the blocks        *)
(* "\n\n<nano_file_content type="file" name="{name}">\n{content}\n         *)
(* </nano_file_content>", one per attachment in sequence order, joined by  *)
(* one "\n".                                                               *)
(***************************************************************************)
RECURSIVE JoinedBlocks(_)
JoinedBlocks(A) ==
    IF A = <<>> THEN <<>>
    ELSE IF Len(A) = 1 THEN TaggedBlock(A[1])
    ELSE TaggedBlock(A[1]) \o <<"\n">> \o JoinedBlocks(Tail(A))

C2_ExactPayload ==
    [][(SendCalls(ev') # <<>> /\ attachedFiles # <<>>) =>
        SendCalls(ev')[1].args[1] =
            TextPrefix(text) \o AttachedFilesOpen \o JoinedBlocks(attachedFiles)
                \o AttachedFilesClose]_vars

\* A payload went out in which one block ends, the joining newline follows and the next block begins.
C2_Witness ==
    /\ SendCalls(ev) # <<>>
    /\ Contains(SendCalls(ev)[1].args[1],
                FileContentClose \o <<"\n">> \o <<"\n", "\n">> \o FileContentOpen)
    /\ OccursAt(<<"H", "e", "l", "l", "o", "\n", "\n">> \o AttachedFilesOpen, SendCalls(ev)[1].args[1], 1)

(***************************************************************************)
(* C3. Every successful submit() (trim(T) non-empty or an attachment       *)
(* present) invokes the send callback exactly once, with a payload and a   *)
(* display, and leaves the text buffer and the attachment sequence both    *)
(* empty: no state has one of them cleared by a submit and not the other.  *)
(***************************************************************************)
C3_SendOnceAndFullReset ==
    /\ [](SendCalls(ev) # <<>> => text = <<>> /\ attachedFiles = <<>>)
    /\ [][(SubmitAttempt(ev') /\ (~AllWhiteSpace(text) \/ attachedFiles # <<>>)) =>
            /\ Len(ev'.calls) = 1
            /\ ev'.calls[1].fn = "onSendMessage"
            /\ Len(ev'.calls[1].args) = 2
            /\ text' = <<>>
            /\ attachedFiles' = <<>>]_vars

\* The send button sent a message made of text and an attachment, and both are cleared.
C3_Witness ==
    /\ ev.op = "submit"
    /\ Len(SendCalls(ev)) = 1
    /\ Contains(SendCalls(ev)[1].args[2], Glyph)
    /\ ~OccursAt(Glyph, SendCalls(ev)[1].args[2], 1)
    /\ text = <<>>
    /\ attachedFiles = <<>>

(***************************************************************************)
(* C4. While the composer is disabled no user event invokes the send       *)
(* callback or has submit() reset the text buffer or the attachments.      *)
(***************************************************************************)
C4_NoSubmitWhileDisabled ==
    /\ [](disabled => SendCalls(ev) = <<>>)
    /\ [][disabled =>
            /\ SendCalls(ev') = <<>>
            /\ SubmitAttempt(ev') => UNCHANGED <<text, attachedFiles>>]_vars

\* A disabled composer holds text and attachments, and a user event (a
\* removal) was just handled without anything being sent.
C4_Witness ==
    /\ disabled
    /\ ~AllWhiteSpace(text)
    /\ attachedFiles # <<>>
    /\ ev.op = "remove"
    /\ ev.calls = <<>>

(***************************************************************************)
(* C5. attach(files) appends a file only if its extension, the lower-cased *)
(* part of its name after the last '.', is one of txt, md, markdown, json, *)
(* csv, log, xml, yaml, yml and its size is at most 1048576 bytes; a       *)
(* selection whose files all fail a check changes neither the attachment   *)
(* sequence nor the text buffer.                                           *)
(***************************************************************************)
AllowedExtensions ==
    {<<"t", "x", "t">>, <<"m", "d">>, <<"m", "a", "r", "k", "d", "o", "w", "n">>,
     <<"j", "s", "o", "n">>, <<"c", "s", "v">>, <<"l", "o", "g">>, <<"x", "m", "l">>,
     <<"y", "a", "m", "l">>, <<"y", "m", "l">>}

\* the name has a '.', and what follows the last one is an allowed extension in any case of letters
HasAllowedExtension(name) ==
    \E p \in 1..Len(name) :
        /\ name[p] = "."
        /\ \A q \in (p + 1)..Len(name) : name[q] # "."
        /\ ToLowerCase(SubSeq(name, p + 1, Len(name))) \in AllowedExtensions

PassesChecks(file) ==
    HasAllowedExtension(file.name) /\ file.size <= 1048576

C5_AsStated ==
    /\ [](\A k \in 1..Len(attachedFiles) :
            \E file \in FilePool : file.name = attachedFiles[k].name /\ PassesChecks(file))
    /\ [][(ev'.op = "fileChange" /\ \A k \in 1..Len(ev'.files) : ~PassesChecks(ev'.files[k])) =>
            UNCHANGED <<text, attachedFiles>>]_vars

C7_TextOnly ==
    [][(SubmitAttempt(ev') /\ attachedFiles = <<>> /\ ~AllWhiteSpace(text)) =>
        /\ Len(SendCalls(ev')) = 1
        /\ SendCalls(ev')[1].args[1] = SendCalls(ev')[1].args[2]
        /\ IsTrimOf(SendCalls(ev')[1].args[1], text)]_vars

\* " a b\n" was sent as "a b".
C7_Witness ==
    /\ Len(SendCalls(ev)) = 1
    /\ SendCalls(ev)[1].args = << <<"a", " ", "b">>, <<"a", " ", "b">> >>

(***************************************************************************)
(* C8. A submit attempt with an empty trim(T) and no attachment does       *)
(* nothing: no callback is invoked, and the text buffer (white space       *)
(* included) and the attachment sequence stay as they are.                 *)
(***************************************************************************)
C8_EmptySubmitIsNoOp ==
    [][(SubmitAttempt(ev') /\ attachedFiles = <<>> /\ AllWhiteSpace(text)) =>
        /\ ev'.calls = <<>>
        /\ UNCHANGED <<text, attachedFiles>>]_vars

\* Enter was pressed on a buffer of one space: nothing was sent, the space is still there.
C8_Witness ==
    /\ SubmitAttempt(ev)
    /\ ev.calls = <<>>
    /\ text = <<" ">>
    /\ attachedFiles = <<>>

(***************************************************************************)
(* C9. A key press runs submit() if and only if the key is Enter, Shift is *)
(* not held and no composition is in progress; any other key press invokes *)
(* no callback and changes neither the text buffer nor the attachments.    *)
(***************************************************************************)
C9_EnterAloneSubmits ==
    [][ev'.op = "keydown" =>
        LET enterAlone == ev'.key = "Enter" /\ ~ev'.shiftKey /\ ~ev'.isComposing
        IN  /\ SubmitAttempt(ev') <=> enterAlone
            /\ (enterAlone /\ (~AllWhiteSpace(text) \/ attachedFiles # <<>>)) =>
                  /\ Len(SendCalls(ev')) = 1
                  /\ text' = <<>>
                  /\ attachedFiles' = <<>>
            /\ ~enterAlone =>
                  /\ ev'.calls = <<>>
                  /\ UNCHANGED <<text, attachedFiles>>]_vars

\* Shift+Enter was pressed over text and an attachment, and both are still there, unsent.
C9_Witness ==
    /\ ev.op = "keydown"
    /\ ev.key = "Enter"
    /\ ev.shiftKey
    /\ ~ev.isComposing
    /\ ev.calls = <<>>
    /\ ~AllWhiteSpace(text)
    /\ attachedFiles # <<>>

(***************************************************************************)
(* C10. As stated: when a historical-session identifier is supplied the    *)
(* primary action button is the replay button, and activating it invokes   *)
(* the replay callback with that identifier, invokes no send callback and  *)
(* leaves the text buffer and the attachments unchanged.                   *)
(***************************************************************************)
ReplayEffect ==
    [][ev'.op = "replay" =>
        /\ ev'.calls = IF onReplay THEN <<[fn |-> "onReplay", args |-> <<historicalSessionId>>]>>
                       ELSE <<>>
        /\ historicalSessionId \notin {NULL, ""}
        /\ UNCHANGED <<text, attachedFiles>>]_vars

C10_AsStated ==
    /\ [](historicalSessionId \notin {NULL, ""} => PrimaryButton = "replay")
    /\ ReplayEffect

(***************************************************************************)
(* C10, amended. When a non-empty historical-session identifier is         *)
(* supplied and the stop button is not shown, the primary action button is *)
(* the replay button and not the send button; activating it invokes the    *)
(* replay callback (when one was passed) with exactly that identifier,     *)
(* invokes no send callback and leaves the text buffer and the attachments *)
(* unchanged.                                                              *)
(***************************************************************************)
C10_ReplayInsteadOfSend ==
    /\ []((historicalSessionId \notin {NULL, ""} /\ ~showStopButton) =>
            PrimaryButton = "replay" /\ ev.op # "submit")
    /\ ReplayEffect

\* The replay button was activated over text and an attachment: the callback
\* got the identifier, and both are still there.
C10_Witness ==
    /\ ev.op = "replay"
    /\ ev.calls = <<[fn |-> "onReplay", args |-> <<"s1">>]>>
    /\ ~AllWhiteSpace(text)
    /\ attachedFiles # <<>>

(***************************************************************************)
(* Attaching files: what the reads of a selection leave behind.            *)
(***************************************************************************)
\* the files of a selection that pass the checks of lines 150 and 156
Accepted(files) ==
    {k \in 1..Len(files) : ~Skipped(files[k])}

\* the attachments made of the files at the indexes idx, in selection order
Picked(files, idx) ==
    LET pos(n) == CHOOSE k \in idx : Cardinality({j \in idx : j <= k}) = n
    IN  [n \in 1..Cardinality(idx) |-> AttachedFile(files[pos(n)])]

\* the activation the last event belongs to has no further file to read
LastRead(a) ==
    \A k \in (a.i + 1)..Len(a.files) : Skipped(a.files[k])

\* reads without its r-th activation
Without(rs, r) ==
    [k \in 1..(Len(rs) - 1) |-> IF k < r THEN rs[k] ELSE rs[k + 1]]

ConsoleOnly(e) ==
    \A k \in 1..Len(e.calls) : e.calls[k].fn \in {"console.warn", "console.error"}

\* C11: a read that fails is left out and nothing else changes: when a read
\* of a selection settles and some read of that selection was rejected (this
\* one or an earlier one), the text and the props stay as they were, no props
\* callback is called (the failure goes to the console only), the handler
\* goes on to the next accepted file without touching the attachments, and
\* after the last read the attachments grow by exactly the accepted files
\* whose read resolved, in one append.
C11_FailedReadIsLeftOut ==
    [][ev'.op = "readSettled" =>
        LET r == ev'.index
            a == reads[r]
            failed == a.rejected \cup (IF ev'.ok THEN {} ELSE {a.i})
        IN  failed # {} =>
              /\ text' = text
              /\ props' = props
              /\ SendCalls(ev') = <<>>
              /\ ConsoleOnly(ev')
              /\ IF LastRead(a)
                 THEN /\ reads' = Without(reads, r)
                      /\ attachedFiles' = attachedFiles \o Picked(a.files, Accepted(a.files) \ failed)
                 ELSE /\ attachedFiles' = attachedFiles
                      /\ Len(reads') = Len(reads)
                      /\ \A k \in 1..Len(reads) : k # r => reads'[k] = reads[k]
                      /\ reads'[r].files = a.files
                      /\ reads'[r].i > a.i
                      /\ ~Skipped(a.files[reads'[r].i])
                      /\ reads'[r].newFiles = IF ev'.ok
                                              THEN Append(a.newFiles, AttachedFile(a.files[a.i]))
                                              ELSE a.newFiles]_vars

\* the read of the first of two accepted files has just been rejected and
\* logged, and the handler is reading the second
C11_Witness ==
    /\ ev.op = "readSettled"
    /\ ~ev.ok
    /\ ev.index \in 1..Len(reads)
    /\ LET a == reads[ev.index]
       IN  /\ Accepted(a.files) = {1, 2}
           /\ a.rejected = {1}
           /\ a.i = 2
           /\ a.newFiles = <<>>
           /\ ev.calls = <<[fn |-> "console.error", args |-> <<a.files[1].name>>]>>

\* C12: the files of one selection become visible together: a settled read
\* that is not the selection's last leaves the attachments as they are, the
\* last one keeps the attachments in place and adds, in that one step, every
\* file the selection has read (each of them an accepted file of that
\* selection), and no other step makes the attachments longer.
C12_AppendedInOneStep ==
    [][IF ev'.op = "readSettled"
       THEN LET a == reads[ev'.index]
                n == Len(a.newFiles) + (IF ev'.ok THEN 1 ELSE 0)
            IN  IF LastRead(a)
                THEN /\ Len(attachedFiles') = Len(attachedFiles) + n
                     /\ SubSeq(attachedFiles', 1, Len(attachedFiles)) = attachedFiles
                     /\ SubSeq(attachedFiles', Len(attachedFiles) + 1, Len(attachedFiles) + Len(a.newFiles))
                           = a.newFiles
                     /\ \A j \in 1..n : \E k \in Accepted(a.files) :
                           attachedFiles'[Len(attachedFiles) + j] = AttachedFile(a.files[k])
                ELSE attachedFiles' = attachedFiles
       ELSE Len(attachedFiles') <= Len(attachedFiles)]_vars

\* a selection of two accepted files with its first file read and its second
\* being read: nothing of it is attached yet
C12_Witness ==
    /\ ev.op = "readSettled"
    /\ ev.ok
    /\ attachedFiles = <<>>
    /\ \E r \in 1..Len(reads) :
          /\ Accepted(reads[r].files) = {1, 2}
          /\ reads[r].i = 2
          /\ reads[r].newFiles = <<AttachedFile(reads[r].files[1])>>

\* C13 as stated: the reads of one selection are independent of one another,
\* so that any of them may complete next: no accepted file of a pending
\* selection waits for the read of another file of that selection.
C13_AsStated ==
    \A r \in 1..Len(reads) :
        \A k \in Accepted(reads[r].files) : k <= reads[r].i

\* the part of the sequence s after its first n elements
Appended(s, n) ==
    SubSeq(s, n + 1, Len(s))

\* C13: the files of one selection are read one at a time, in selection
\* order: a pending selection has settled exactly the accepted files before
\* the one it is reading, and holds those whose read resolved in the order
\* of the selection; what its last read appends is in selection order too.
C13_SelectionOrder ==
    /\ [](\A r \in 1..Len(reads) :
            LET a == reads[r]
            IN  /\ a.i \in Accepted(a.files)
                /\ a.rejected \subseteq {k \in Accepted(a.files) : k < a.i}
                /\ a.newFiles = Picked(a.files, {k \in Accepted(a.files) : k < a.i} \ a.rejected))
    /\ [][ev'.op = "readSettled" /\ LastRead(reads[ev'.index]) =>
            LET a == reads[ev'.index]
                batch == Appended(attachedFiles', Len(attachedFiles))
            IN  \A x \in 1..Len(batch), y \in 1..Len(batch) :
                    x < y => \E k \in Accepted(a.files), l \in Accepted(a.files) :
                                /\ k < l
                                /\ batch[x] = AttachedFile(a.files[k])
                                /\ batch[y] = AttachedFile(a.files[l])]_vars

\* of the selection B.MD, a.txt the first file has been read, and only now
\* is the second being read
C13_Witness ==
    /\ ev.op = "readSettled"
    /\ ev.ok
    /\ \E r \in 1..Len(reads) :
          /\ Len(reads[r].files) = 2
          /\ reads[r].files[1].name = <<"B", ".", "M", "D">>
          /\ reads[r].files[2].name = <<"a", ".", "t", "x", "t">>
          /\ reads[r].i = 2
          /\ reads[r].newFiles = <<AttachedFile(reads[r].files[1])>>

\* the name attribute of a tagged block, as the payload carries it
NameAttribute(name) ==
    <<" ", "n", "a", "m", "e", "=", "\"">> \o name \o <<"\"">>

\* the files of the pending selections, read or not, that are not attached
PendingOnly(rs, files) ==
    {f \in UNION {{rs[r].files[k] : k \in 1..Len(rs[r].files)} : r \in 1..Len(rs)} :
        \A j \in 1..Len(files) : files[j].name # f.name}

\* C14: a submit while files are being read sends the attachments of that
\* moment and nothing of the pending selections: the payload has one block
\* per attachment and neither it nor the display names a pending file that
\* is not attached; the submit empties the attachments and leaves the
\* pending selections as they are; and when such a selection settles, its
\* files are appended to the attachments of that moment and nothing is sent.
\* An attachment that was sent is thus gone, and one that arrives later has
\* never been sent.
C14_SubmitDuringReads ==
    /\ [][SendCalls(ev') # <<>> /\ reads # <<>> =>
            LET payload == SendCalls(ev')[1].args[1]
                display == SendCalls(ev')[1].args[2]
            IN  /\ Len(SendCalls(ev')) = 1
                /\ Cardinality(Occurrences(FileContentOpen, payload)) = Len(attachedFiles)
                /\ Cardinality(Occurrences(Glyph, display)) = Len(attachedFiles)
                /\ \A f \in PendingOnly(reads, attachedFiles) :
                      /\ ~Contains(payload, NameAttribute(f.name))
                      /\ ~Contains(display, GlyphLine(f))
                /\ attachedFiles' = <<>>
                /\ reads' = reads]_vars
    /\ [][ev'.op = "readSettled" =>
            LET a == reads[ev'.index]
            IN  /\ ev'.calls = CatchLog(a.files[a.i], ev'.ok)
                                 \o Warnings(a.files, a.i + 1, NextRead(a.files, a.i + 1) - 1)
                /\ SendCalls(ev') = <<>>
                /\ LastRead(a) =>
                      attachedFiles' = attachedFiles \o a.newFiles
                                         \o (IF ev'.ok THEN <<AttachedFile(a.files[a.i])>> ELSE <<>>)]_vars

\* a message with an attachment has just been sent while a selection is
\* reading a file that the message does not carry
C14_Witness ==
    /\ SendCalls(ev) # <<>>
    /\ Contains(SendCalls(ev)[1].args[1], FileContentOpen)
    /\ attachedFiles = <<>>
    /\ \E r \in 1..Len(reads) :
          ~Contains(SendCalls(ev)[1].args[1], NameAttribute(reads[r].files[reads[r].i].name))

\* C15: overlapping selections lose nothing. On every step that is not a
\* submit or a remove: a selection that finishes, whatever other selections
\* are being read or have finished since it started, keeps every attachment
\* in its place and adds its own files (the accepted ones whose read
\* resolved) as one block at the end, and leaves the other pending
\* selections with the files they have read; every other step leaves the
\* attachments as they are. The blocks therefore follow the prior entries
\* in the order in which the selections finish.
C15_NoLostUpdate ==
    [][~SubmitAttempt(ev') /\ ev'.op # "remove" =>
        IF ev'.op = "readSettled" /\ LastRead(reads[ev'.index])
        THEN LET r == ev'.index
                 a == reads[r]
                 failed == a.rejected \cup (IF ev'.ok THEN {} ELSE {a.i})
                 block == Picked(a.files, Accepted(a.files) \ failed)
             IN  /\ attachedFiles' = attachedFiles \o block
                 /\ reads' = Without(reads, r)
        ELSE attachedFiles' = attachedFiles]_vars

\* of two selections being read at once, the one that started second has
\* finished first: its file is the last attachment while the other
\* selection is still reading its first file
C15_Witness ==
    /\ ev.op = "readSettled"
    /\ ev.index = 2
    /\ ev.ok
    /\ Len(reads) = 1
    /\ reads[1].newFiles = <<>>
    /\ Len(attachedFiles) = 1
    /\ attachedFiles[1].name # reads[1].files[reads[1].i].name

(***************************************************************************)
(* The profile form: custom fields and form data.                          *)
(***************************************************************************)
\* the keys of the custom fields, and the keys of the form data
CustomFieldKeys ==
    {customFields[k].key : k \in 1..Len(customFields)}

FormDataKeys ==
    {formData[k].key : k \in 1..Len(formData)}

PredefinedKeys ==
    {predefinedFields[k].key : k \in 1..Len(predefinedFields)}

\* C16: in every state of the profile form the keys of the custom fields
\* are pairwise distinct, none of them is the key of a predefined field, and
\* they are the keys of the form data that are not predefined keys; and an
\* addCustomField whose label is not blank and yields a key that a
\* predefined or a custom field already has changes nothing of the form.
C16_CustomFieldsMatchFormData ==
    /\ [](/\ \A j \in 1..Len(customFields), k \in 1..Len(customFields) :
                j # k => customFields[j].key # customFields[k].key
          /\ CustomFieldKeys \cap PredefinedKeys = {}
          /\ CustomFieldKeys = FormDataKeys \ PredefinedKeys)
    /\ [][/\ pev'.op = "addCustomField"
           /\ Trim(newFieldLabel) # <<>>
           /\ labelToKey(newFieldLabel) \in CustomFieldKeys \cup PredefinedKeys
           => UNCHANGED <<profileData, formData, customFields, newFieldLabel, saved, awaiting>>]_vars

\* with two custom fields in the form, an addCustomField has just been
\* turned down because a custom field has the key of its label
C16_Witness ==
    /\ pev.op = "addCustomField"
    /\ pev.alerted
    /\ Len(customFields) = 2
    /\ pev.key \in CustomFieldKeys
    /\ labelToKey(newFieldLabel) = pev.key
====
